---- MODULE Spec2Model ----
(***************************************************************************)
(* The 360-degree video generation server: the in-memory job store         *)
(* (server/storage.ts) and the complete-workflow endpoint                  *)
(* POST /api/generate-360-video (server/routes.ts) with its three provider *)
(* clients uploadToImageKit, analyzeImageWithGemini and                    *)
(* generateVideoWithVertexAI.  The handler is cut into steps at its awaits *)
(* of the store and of the network (reading a response body and the poll   *)
(* loop's sleep belong to the step of their fetch), so the handlers of     *)
(* concurrent requests interleave where Node lets them interleave.         *)
(***************************************************************************)
EXTENDS Integers, Sequences, FiniteSets, TLC

VARIABLES
    videoGenerations, \* MemStorage.videoGenerations: id -> record
    now,              \* the wall clock read by new Date(); no handler step depends on it
    env,              \* process.env, fixed for the life of the process
    pc,               \* per request: the await the handler is suspended at
    imageData,        \* per request: req.body.imageData
    videoGen,         \* per request: videoGen.id of the created record (0: none)
    imageToAnalyze,   \* per request: the handler's local imageToAnalyze
    describeArg,      \* per request: the image reference describe was called with
    analysisData,     \* per request: the result of analyzeImageWithGemini
    i,                \* per request: the poll loop's counter
    res,              \* per request: the response sent ("none" while pending)
    caught,           \* per request: the message of the error the catch received
    uploadWarn,       \* per request: the upload error logged by console.warn
    calls,            \* per request: invocations of each stage function
    external,         \* per request: whether a network call has been issued
    statusData,       \* per request: the answer of the poll loop's latest status check
    lastCall,         \* the latest direct call of the IStorage interface and its result
    selectedFile,     \* VideoGenerator: whether a file is selected
    status,           \* VideoGenerator: the status state
    progress,         \* VideoGenerator: the progress state
    result,           \* VideoGenerator: whether result is set (not null)
    workflowSteps,    \* VideoGenerator: the steps marked completed
    runPc,            \* per run of generateVideo: the await it is suspended at
    timers,           \* the browser's pending timer callbacks
    time              \* the browser's clock, in seconds

vars == <<videoGenerations, now, env, pc, imageData, videoGen, imageToAnalyze,
          describeArg, analysisData, i, res, caught, uploadWarn, calls, external,
          statusData, lastCall, selectedFile, status, progress, result,
          workflowSteps, runPc, timers, time>>

\* the state of the page
clientVars ==
    <<selectedFile, status, progress, result, workflowSteps, runPc, timers, time>>

----------------------------------------------------------------------------
(* Bounds of the model *)

\* number of complete-workflow requests the server receives
NumReqs == 1
\* number of records a client of the store interface creates
MaxJobs == 2
\* number of times the clock ticks
MaxClock == 1

\* the runs of generateVideo a page is followed through
MaxRuns == 2

\* the seconds the browser's clock is followed through
MaxTime == 6

(* Program constants *)

\* routes.ts:236  const maxAttempts = 40
maxAttempts == 40

\* the requests of a run
Reqs == DOMAIN pc

None == "none"

\* routes.ts:672  the console.warn of a failed upload
UploadWarning == "ImageKit upload failed, using original image"
NoImage == <<>>
\* analysisData before analyzeImageWithGemini has returned
NoAnalysis == <<>>

\* An image reference is <<prefix, rest>>; the empty tuple is a missing
\* imageData (undefined or "").
ImageInputs == { NoImage, <<"data:", "b64">>, <<"https://", "shop/img">> }

\* What the image host answers with on success (imagekitData.url).
HostedUrl == <<"https://", "ik.imagekit.io/img">>

\* req.body.productName, with the handler's default
ProductName == "Product"

EnvSpace ==
    [ IMAGEKIT_PRIVATE_KEY : BOOLEAN,
      GEMINI_API_KEY : BOOLEAN,
      VERTEX_SERVICE_ACCOUNT_JSON : {"missing", "malformed", "valid"},
      VERTEX_PROJECT_ID : BOOLEAN ]

----------------------------------------------------------------------------
(* Pure helpers *)

\* imageData.startsWith('http://') || imageData.startsWith('https://')
isUrl(ref) == ref # NoImage /\ ref[1] \in {"http://", "https://"}

\* status values in pipeline order (schema.ts z.enum)
StatusValues == {"pending", "analyzing", "generating", "completed", "failed"}

Rank(s) ==
    CASE s = "pending" -> 0
      [] s = "analyzing" -> 1
      [] s = "generating" -> 2
      [] s = "completed" -> 3
      [] OTHER -> 4

\* an object spread {...a, ...b}: b's fields win
Spread(a, b) == b @@ a

----------------------------------------------------------------------------
(* MemStorage *)

\* randomUUID(): a fresh identifier, never one already in the map
\* an identifier generator that can repeat itself
randomUUIDCollide(store) == 1

randomUUID(store) == Cardinality(DOMAIN store) + 1

\* a create that builds the record but never puts it into the map
createVideoGenerationNoSet(store, id, data, t) == store

\* a create that stamps updatedAt with the epoch in place of the current time
createVideoGenerationEpoch(store, id, data, t) ==
    (id :> Spread(data, [id |-> id, createdAt |-> t, updatedAt |-> 0])) @@ store

createVideoGeneration(store, id, data, t) ==
    (id :> Spread(data, [id |-> id, createdAt |-> t, updatedAt |-> t])) @@ store

\* undefined, as a store method returns it
Undefined == <<>>

\* a get that ignores the id and returns the newest record
getVideoGenerationNewest(store, id) ==
    IF store = <<>> THEN Undefined ELSE store[Cardinality(DOMAIN store)]

getVideoGeneration(store, id) ==
    IF id \in DOMAIN store THEN store[id] ELSE Undefined

\* Array.from(map.values()): the records in insertion order, which is the
\* order of the ids
\* a list that leaves out the newest record
listVideoGenerationsDropsNewest(store) ==
    [k \in 1..(Cardinality(DOMAIN store) - 1) |-> store[k]]

listVideoGenerations(store) ==
    [k \in 1..Cardinality(DOMAIN store) |-> store[k]]

\* an update without the existence check
updateVideoGenerationUpserts(store, id, data, t) ==
    (id :> Spread(Spread(getVideoGeneration(store, id), data), [updatedAt |-> t])) @@ store

\* an update that stores the partial input in place of the record
updateVideoGenerationReplaces(store, id, data, t) ==
    IF id \notin DOMAIN store
    THEN store
    ELSE (id :> Spread(data, [id |-> id, updatedAt |-> t])) @@ store

updateVideoGeneration(store, id, data, t) ==
    IF id \notin DOMAIN store
    THEN store
    ELSE (id :> Spread(Spread(store[id], data), [updatedAt |-> t])) @@ store

Has(rec, field) == field \in DOMAIN rec

----------------------------------------------------------------------------
(* The field sets the handler writes *)

NewJob(image) ==
    [productName |-> ProductName, imageUrl |-> image, status |-> "pending"]

AnalyzingUpdate == [status |-> "analyzing"]

\* an upload result written together with the initial status
HostedUpdateResets(url) == [imagekitUrl |-> url, status |-> "pending"]

HostedUpdate(url) == [imagekitUrl |-> url]

\* the status written before the analysis results are
AnalysisUpdateNoFields(a) == [status |-> "generating"]

\* the description left out of the update
AnalysisUpdatePromptOnly(a) == [videoPrompt |-> a.videoPrompt, status |-> "generating"]
AnalysisUpdate(a) ==
    [geminiDescription |-> a.description, videoPrompt |-> a.videoPrompt,
     status |-> "generating"]

\* the status written without the payload
CompletedUpdateNoVideo(videoData) == [status |-> "completed"]

CompletedUpdate(videoData) == [videoData |-> videoData, status |-> "completed"]

\* analyzeImageWithGemini's result for a description text
Analysis(description) ==
    [description |-> description, videoPrompt |-> <<"prompt", ProductName, description>>]

----------------------------------------------------------------------------
InitFor(n) ==
    /\ videoGenerations = <<>>
    /\ now = 0
    /\ env \in EnvSpace
    /\ pc = [r \in 1..n |-> "idle"]
    /\ imageData = [r \in 1..n |-> NoImage]
    /\ videoGen = [r \in 1..n |-> 0]
    /\ imageToAnalyze = [r \in 1..n |-> NoImage]
    /\ describeArg = [r \in 1..n |-> NoImage]
    /\ analysisData = [r \in 1..n |-> NoAnalysis]
    /\ i = [r \in 1..n |-> 0]
    /\ res = [r \in 1..n |-> None]
    /\ caught = [r \in 1..n |-> None]
    /\ uploadWarn = [r \in 1..n |-> None]
    /\ calls = [r \in 1..n |-> [upload |-> 0, describe |-> 0, synthesize |-> 0]]
    /\ external = [r \in 1..n |-> FALSE]
    /\ statusData = [r \in 1..n |-> None]
    /\ lastCall = [op |-> None]
    /\ selectedFile = FALSE
    /\ status = "idle"
    /\ progress = 0
    /\ result = FALSE
    /\ workflowSteps = {}
    /\ runPc = <<>>
    /\ timers = {}
    /\ time = 0

Init == InitFor(NumReqs)

----------------------------------------------------------------------------
(* The complete-workflow handler, POST /api/generate-360-video *)

\* a fetch to an external endpoint is issued
Contact(r, endpoint) == [external EXCEPT ![r] = TRUE]

\* The handler's catch block: a 500 JSON response carrying the message.
\* It writes nothing to the store.
\* a catch that records the error and ends the handler without responding
CatchNoResponse(r, message) ==
    /\ res' = res
    /\ caught' = [caught EXCEPT ![r] = message]
    /\ pc' = [pc EXCEPT ![r] = "done"]

Catch(r, message) ==
    /\ res' = [res EXCEPT ![r] = "500"]
    /\ caught' = [caught EXCEPT ![r] = message]
    /\ pc' = [pc EXCEPT ![r] = "done"]

\* generateVideoWithVertexAI returned videoData: the handler stores it with
\* status completed and suspends on that update before responding.
Return(r, videoData) ==
    /\ videoGenerations' =
           updateVideoGeneration(videoGenerations, videoGen[r],
                                 CompletedUpdate(videoData), now)
    /\ pc' = [pc EXCEPT ![r] = "respond"]
    /\ UNCHANGED <<res, caught>>

\* uploadToImageKit threw: the inner catch logs a warning and the handler
\* goes on to describe with the original image.
UploadThrowsAborts(r) ==
    /\ uploadWarn' = [uploadWarn EXCEPT ![r] = UploadWarning]
    /\ Catch(r, "ImageKit upload failed")

UploadThrows(r) ==
    /\ uploadWarn' = [uploadWarn EXCEPT ![r] = UploadWarning]
    /\ pc' = [pc EXCEPT ![r] = "describe"]
    /\ UNCHANGED <<res, caught>>

\* analyzeImageWithGemini threw: nothing but the outer catch receives it.
DescribeThrowsSwallowed(r, message) ==
    /\ caught' = [caught EXCEPT ![r] = message]
    /\ pc' = [pc EXCEPT ![r] = "synth"]
    /\ UNCHANGED res

\* a failed describe that is tried again
DescribeThrowsRetries(r, message) ==
    /\ caught' = [caught EXCEPT ![r] = message]
    /\ pc' = [pc EXCEPT ![r] = "describe"]
    /\ UNCHANGED res

DescribeThrows(r, message) == Catch(r, message)

\* a handler that creates the record before it validates the request
ReceiveCreatesFirst(r) ==
    /\ pc[r] = "idle"
    /\ \A q \in Reqs : q < r => pc[q] # "idle"
    /\ \E img \in ImageInputs :
        LET id == randomUUID(videoGenerations) IN
        /\ imageData' = [imageData EXCEPT ![r] = img]
        /\ videoGenerations' =
               createVideoGeneration(videoGenerations, id, NewJob(img), now)
        /\ videoGen' = [videoGen EXCEPT ![r] = id]
        /\ IF img = NoImage
           THEN /\ res' = [res EXCEPT ![r] = "400"]
                /\ pc' = [pc EXCEPT ![r] = "done"]
           ELSE /\ pc' = [pc EXCEPT ![r] = "created"]
                /\ UNCHANGED res
    /\ UNCHANGED <<now, env, lastCall, clientVars, statusData, imageToAnalyze, describeArg, analysisData, i, caught,
                   uploadWarn, calls, external>>

\* The request arrives: validation, then createVideoGeneration.
Receive(r) ==
    /\ pc[r] = "idle"
    /\ \A q \in Reqs : q < r => pc[q] # "idle"
    /\ \E img \in ImageInputs :
        /\ imageData' = [imageData EXCEPT ![r] = img]
        /\ IF img = NoImage
           THEN /\ res' = [res EXCEPT ![r] = "400"]
                /\ pc' = [pc EXCEPT ![r] = "done"]
                /\ UNCHANGED <<videoGenerations, videoGen>>
           ELSE LET id == randomUUID(videoGenerations) IN
                /\ videoGenerations' =
                       createVideoGeneration(videoGenerations, id, NewJob(img), now)
                /\ videoGen' = [videoGen EXCEPT ![r] = id]
                /\ pc' = [pc EXCEPT ![r] = "created"]
                /\ UNCHANGED res
    /\ UNCHANGED <<now, env, lastCall, clientVars, statusData, imageToAnalyze, describeArg, analysisData, i, caught,
                   uploadWarn, calls, external>>

SetAnalyzing(r) ==
    /\ pc[r] = "created"
    /\ videoGenerations' =
           updateVideoGeneration(videoGenerations, videoGen[r], AnalyzingUpdate, now)
    /\ pc' = [pc EXCEPT ![r] = "upload"]
    /\ UNCHANGED <<now, env, lastCall, clientVars, statusData, imageData, videoGen, imageToAnalyze, describeArg,
                   analysisData, i, res, caught, uploadWarn, calls, external>>

\* uploadToImageKit is called; a throw is caught by the inner try and the
\* handler goes on with the original image.
UploadStart(r) ==
    /\ pc[r] = "upload"
    /\ imageToAnalyze' = [imageToAnalyze EXCEPT ![r] = imageData[r]]
    /\ calls' = [calls EXCEPT ![r].upload = @ + 1]
    /\ IF ~env.IMAGEKIT_PRIVATE_KEY
       THEN /\ UploadThrows(r)
            /\ UNCHANGED external
       ELSE IF isUrl(imageData[r])
       THEN /\ external' = Contact(r, "imageUrl")
            /\ pc' = [pc EXCEPT ![r] = "upFetch"]
            /\ UNCHANGED <<uploadWarn, res, caught>>
       ELSE /\ external' = Contact(r, "imagekit")
            /\ pc' = [pc EXCEPT ![r] = "upPost"]
            /\ UNCHANGED <<uploadWarn, res, caught>>
    /\ UNCHANGED <<videoGenerations, now, env, lastCall, clientVars, statusData, imageData, videoGen, describeArg,
                   analysisData, i>>

UploadFetch(r) ==
    /\ pc[r] = "upFetch"
    /\ \E ok \in BOOLEAN :
        IF ok
        THEN /\ external' = Contact(r, "imagekit")
             /\ pc' = [pc EXCEPT ![r] = "upPost"]
             /\ UNCHANGED <<uploadWarn, res, caught>>
        ELSE /\ UploadThrows(r)
             /\ UNCHANGED external
    /\ UNCHANGED <<videoGenerations, now, env, lastCall, clientVars, statusData, imageData, videoGen, imageToAnalyze,
                   describeArg, analysisData, i, calls>>

UploadPost(r) ==
    /\ pc[r] = "upPost"
    /\ \E ok \in BOOLEAN :
        IF ok
        THEN /\ imageToAnalyze' = [imageToAnalyze EXCEPT ![r] = HostedUrl]
             /\ videoGenerations' =
                    updateVideoGeneration(videoGenerations, videoGen[r],
                                          HostedUpdate(HostedUrl), now)
             /\ pc' = [pc EXCEPT ![r] = "describe"]
             /\ UNCHANGED <<uploadWarn, res, caught>>
        ELSE /\ UploadThrows(r)
             /\ UNCHANGED <<videoGenerations, imageToAnalyze>>
    /\ UNCHANGED <<now, env, lastCall, clientVars, statusData, imageData, videoGen, describeArg, analysisData, i,
                   calls, external>>

\* analyzeImageWithGemini is called with imageToAnalyze.
DescribeStart(r) ==
    /\ pc[r] = "describe"
    /\ calls' = [calls EXCEPT ![r].describe = @ + 1]
    /\ describeArg' = [describeArg EXCEPT ![r] = imageToAnalyze[r]]
    /\ IF ~env.GEMINI_API_KEY
       THEN /\ DescribeThrows(r, "GEMINI_API_KEY not configured")
            /\ UNCHANGED external
       ELSE IF isUrl(imageToAnalyze[r])
       THEN /\ external' = Contact(r, "imageUrl")
            /\ pc' = [pc EXCEPT ![r] = "dFetch"]
            /\ UNCHANGED <<res, caught>>
       ELSE /\ external' = Contact(r, "gemini")
            /\ pc' = [pc EXCEPT ![r] = "dPost"]
            /\ UNCHANGED <<res, caught>>
    /\ UNCHANGED <<videoGenerations, now, env, lastCall, clientVars, statusData, imageData, videoGen, imageToAnalyze,
                   analysisData, i, uploadWarn>>

DescribeFetch(r) ==
    /\ pc[r] = "dFetch"
    /\ \E ok \in BOOLEAN :
        IF ok
        THEN /\ external' = Contact(r, "gemini")
             /\ pc' = [pc EXCEPT ![r] = "dPost"]
             /\ UNCHANGED <<res, caught>>
        ELSE /\ DescribeThrows(r, "Failed to fetch image from URL")
             /\ UNCHANGED external
    /\ UNCHANGED <<videoGenerations, now, env, lastCall, clientVars, statusData, imageData, videoGen, imageToAnalyze,
                   describeArg, analysisData, i, uploadWarn, calls>>

\* What the description provider can answer.
GeminiOutcomes == {"httpError", "unparseable", "empty", "text"}

\* The continuation of a successful describe: persist and go on to synthesize.
Described(r, a) ==
    /\ analysisData' = [analysisData EXCEPT ![r] = a]
    /\ videoGenerations' =
           updateVideoGeneration(videoGenerations, videoGen[r], AnalysisUpdate(a), now)
    /\ pc' = [pc EXCEPT ![r] = "synth"]
    /\ UNCHANGED <<res, caught>>

DescribePost(r) ==
    /\ pc[r] = "dPost"
    /\ \E out \in GeminiOutcomes :
        CASE out = "httpError" ->
               /\ DescribeThrows(r, "Gemini API error")
               /\ UNCHANGED <<videoGenerations, analysisData>>
          [] out = "unparseable" ->
               /\ DescribeThrows(r, "SyntaxError")
               /\ UNCHANGED <<videoGenerations, analysisData>>
          [] out = "empty" ->
               /\ DescribeThrows(r, "Invalid Gemini response")
               /\ UNCHANGED <<videoGenerations, analysisData>>
          [] OTHER -> Described(r, Analysis("description"))
    /\ UNCHANGED <<now, env, lastCall, clientVars, statusData, imageData, videoGen, imageToAnalyze, describeArg, i,
                   uploadWarn, calls, external>>

----------------------------------------------------------------------------
(* generateVideoWithVertexAI, as called by the handler *)

\* Configuration checks, credential parsing, then the token request.
SynthStart(r) ==
    /\ pc[r] = "synth"
    /\ calls' = [calls EXCEPT ![r].synthesize = @ + 1]
    /\ IF env.VERTEX_SERVICE_ACCOUNT_JSON = "missing"
       THEN /\ Catch(r, "VERTEX_SERVICE_ACCOUNT_JSON not configured")
            /\ UNCHANGED external
       ELSE IF ~env.VERTEX_PROJECT_ID
       THEN /\ Catch(r, "VERTEX_PROJECT_ID not configured")
            /\ UNCHANGED external
       ELSE IF env.VERTEX_SERVICE_ACCOUNT_JSON = "malformed"
       THEN /\ Catch(r, "Invalid VERTEX_SERVICE_ACCOUNT_JSON format")
            /\ UNCHANGED external
       ELSE /\ external' = Contact(r, "googleAuth")
            /\ pc' = [pc EXCEPT ![r] = "vAuth"]
            /\ UNCHANGED <<res, caught>>
    /\ UNCHANGED <<videoGenerations, now, env, lastCall, clientVars, statusData, imageData, videoGen, imageToAnalyze,
                   describeArg, analysisData, i, uploadWarn>>

AuthOutcomes == {"token", "noToken", "authError"}

SynthAuth(r) ==
    /\ pc[r] = "vAuth"
    /\ \E out \in AuthOutcomes :
        CASE out = "token" ->
               /\ external' = Contact(r, "vertexPredict")
               /\ pc' = [pc EXCEPT ![r] = "vPredict"]
               /\ UNCHANGED <<res, caught>>
          [] out = "noToken" ->
               /\ Catch(r, "Failed to get access token from service account")
               /\ UNCHANGED external
          [] OTHER ->
               /\ Catch(r, "auth client error")
               /\ UNCHANGED external
    /\ UNCHANGED <<videoGenerations, now, env, lastCall, clientVars, statusData, imageData, videoGen, imageToAnalyze,
                   describeArg, analysisData, i, uploadWarn, calls>>

\* The shapes of the predict response body: which of name,
\* predictions[0].video and predictions[0].videoUri it carries.
VeoShapes == [name : BOOLEAN, video : BOOLEAN, videoUri : BOOLEAN]

\* 'Unexpected Vertex AI response: ' + JSON.stringify(veoData)
Unexpected(veoData) ==
    IF veoData.video
    THEN "Unexpected Vertex AI response: {predictions:[{video}]}"
    ELSE "Unexpected Vertex AI response: {}"

SynthPredict(r) ==
    /\ pc[r] = "vPredict"
    /\ \E ok \in BOOLEAN, veoData \in VeoShapes :
        IF ~ok
        THEN /\ Catch(r, "Vertex AI Veo 2 API error")
             /\ UNCHANGED <<videoGenerations, i, external>>
        ELSE IF ~(veoData.name \/ veoData.videoUri)
        THEN /\ Catch(r, Unexpected(veoData))
             /\ UNCHANGED <<videoGenerations, i, external>>
        ELSE IF veoData.video
        THEN /\ Return(r, "inline video")
             /\ UNCHANGED <<i, external>>
        ELSE IF veoData.videoUri
        THEN /\ external' = Contact(r, "videoUri")
             /\ pc' = [pc EXCEPT ![r] = "vDownload"]
             /\ UNCHANGED <<videoGenerations, i, res, caught>>
        ELSE /\ i' = [i EXCEPT ![r] = 0]
             /\ external' = Contact(r, "vertexOperation")
             /\ pc' = [pc EXCEPT ![r] = "vPoll"]
             /\ UNCHANGED <<videoGenerations, res, caught>>
    /\ UNCHANGED <<now, env, lastCall, clientVars, statusData, imageData, videoGen, imageToAnalyze, describeArg,
                   analysisData, uploadWarn, calls>>

\* The download of an immediate videoUri (its status is checked).
SynthDownload(r) ==
    /\ pc[r] = "vDownload"
    /\ \E ok \in BOOLEAN :
        IF ok
        THEN Return(r, "downloaded video")
        ELSE /\ Catch(r, "Failed to download video")
             /\ UNCHANGED videoGenerations
    /\ UNCHANGED <<now, env, lastCall, clientVars, statusData, imageData, videoGen, imageToAnalyze, describeArg,
                   analysisData, i, uploadWarn, calls, external>>

\* What one status check of the operation can answer.
PollOutcomes == {"notOk", "doneError", "doneVideo", "doneUri", "doneEmpty", "running"}

\* The for loop's test, i < maxAttempts.
LoopContinuesOffByOne(k) == k <= maxAttempts

LoopContinues(k) == k < maxAttempts

\* One iteration of the poll loop: the sleep, the status check and what
\* follows from its answer.  i is the loop's counter; it goes out of scope
\* (back to 0 here) when the loop is left.
SynthPoll(r) ==
    /\ pc[r] = "vPoll"
    /\ LoopContinues(i[r])
    /\ \E out \in PollOutcomes :
        /\ statusData' = [statusData EXCEPT ![r] = out]
        /\ CASE out = "notOk" ->
               /\ Catch(r, "Failed to check status")
               /\ i' = [i EXCEPT ![r] = 0]
               /\ UNCHANGED <<videoGenerations, external>>
          [] out = "doneError" ->
               /\ Catch(r, "Video generation failed")
               /\ i' = [i EXCEPT ![r] = 0]
               /\ UNCHANGED <<videoGenerations, external>>
          [] out = "doneVideo" ->
               /\ Return(r, "inline video")
               /\ i' = [i EXCEPT ![r] = 0]
               /\ UNCHANGED external
          [] out = "doneUri" ->
               /\ external' = Contact(r, "videoUri")
               /\ pc' = [pc EXCEPT ![r] = "vPollDownload"]
               /\ i' = [i EXCEPT ![r] = 0]
               /\ UNCHANGED <<videoGenerations, res, caught>>
          [] OTHER ->
               /\ IF LoopContinues(i[r] + 1)
                  THEN /\ i' = [i EXCEPT ![r] = @ + 1]
                       /\ UNCHANGED <<pc, res, caught>>
                  ELSE /\ i' = [i EXCEPT ![r] = 0]
                       /\ Catch(r, "Video generation timed out")
               /\ UNCHANGED <<videoGenerations, external>>
    /\ UNCHANGED <<now, env, lastCall, clientVars, imageData, videoGen, imageToAnalyze, describeArg,
                   analysisData, uploadWarn, calls>>

\* The download of a polled videoUri: its status is not checked, so an error
\* body is returned as the video; only a transport error throws.
DownloadOutcomes == {"ok", "httpError", "networkError"}

SynthPollDownload(r) ==
    /\ pc[r] = "vPollDownload"
    /\ \E out \in DownloadOutcomes :
        CASE out = "ok" -> Return(r, "downloaded video")
          [] out = "httpError" -> Return(r, "error body")
          [] OTHER ->
               /\ Catch(r, "fetch failed")
               /\ UNCHANGED videoGenerations
    /\ UNCHANGED <<now, env, lastCall, clientVars, statusData, imageData, videoGen, imageToAnalyze, describeArg,
                   analysisData, i, uploadWarn, calls, external>>

\* res.send(videoBuffer)
SendVideo(r) ==
    /\ pc[r] = "respond"
    /\ res' = [res EXCEPT ![r] = "video"]
    /\ pc' = [pc EXCEPT ![r] = "done"]
    /\ UNCHANGED <<videoGenerations, now, env, lastCall, clientVars, statusData, imageData, videoGen, imageToAnalyze,
                   describeArg, analysisData, i, caught, uploadWarn, calls, external>>

Next ==
    \/ \E r \in Reqs : Receive(r)
    \/ \E r \in Reqs : SetAnalyzing(r)
    \/ \E r \in Reqs : UploadStart(r)
    \/ \E r \in Reqs : UploadFetch(r)
    \/ \E r \in Reqs : UploadPost(r)
    \/ \E r \in Reqs : DescribeStart(r)
    \/ \E r \in Reqs : DescribeFetch(r)
    \/ \E r \in Reqs : DescribePost(r)
    \/ \E r \in Reqs : SynthStart(r)
    \/ \E r \in Reqs : SynthAuth(r)
    \/ \E r \in Reqs : SynthPredict(r)
    \/ \E r \in Reqs : SynthDownload(r)
    \/ \E r \in Reqs : SynthPoll(r)
    \/ \E r \in Reqs : SynthPollDownload(r)
    \/ \E r \in Reqs : SendVideo(r)

Spec == Init /\ [][Next]_vars

----------------------------------------------------------------------------
(* Properties *)

Jobs == DOMAIN videoGenerations

\* the record of the job request r created
JobOf(r) == videoGenerations[videoGen[r]]

Created(r) == videoGen[r] \in Jobs

\* the handler of r has sent its response
Responded(r) == res[r] # None

\* analyzeImageWithGemini was called for r and threw
DescribeFailed(r) ==
    calls[r].describe > 0 /\ DOMAIN analysisData[r] = {} /\ caught[r] # None

\* generateVideoWithVertexAI was called for r and threw
SynthesizeFailed(r) == calls[r].synthesize > 0 /\ caught[r] # None

\* a permitted move of status between two consecutive states of a record
StatusMove(old, new) ==
    \/ new = old
    \/ old # "completed" /\ new = "failed"
    \/ /\ new \in {"analyzing", "generating", "completed"}
       /\ Rank(old) < Rank(new)

\* C1: between any two consecutive states, every job record is still there
\* and its status has stayed, advanced along pending -> analyzing ->
\* generating -> completed, or moved from a non-completed status to failed.
C1_StatusOnlyAdvances ==
    [][\A id \in Jobs :
          /\ id \in DOMAIN videoGenerations'
          /\ StatusMove(videoGenerations[id].status, videoGenerations'[id].status)]_vars

\* a job has gone through every status up to completed
C1_Witness ==
    \E r \in Reqs : Created(r) /\ JobOf(r).status = "completed" /\ res[r] = "video"

\* C2: once the handler has answered a request whose describe stage threw,
\* the job record has status failed with the reason in its error field, and
\* no videoPrompt.
C2_DescribeFailureRecorded ==
    \A r \in Reqs :
        (DescribeFailed(r) /\ Responded(r)) =>
            /\ JobOf(r).status = "failed"
            /\ Has(JobOf(r), "error")
            /\ ~Has(JobOf(r), "videoPrompt")

\* C3: once the handler has answered a request whose synthesize stage threw
\* or timed out, the job record has status failed with the reason in its
\* error field.
C3_SynthesizeFailureRecorded ==
    \A r \in Reqs :
        (SynthesizeFailed(r) /\ Responded(r)) =>
            /\ JobOf(r).status = "failed"
            /\ Has(JobOf(r), "error")

\* C4: whenever the handler has sent its response for a request that created
\* a job, that job's status is completed or failed.
C4_RespondsOnlyWhenTerminal ==
    \A r \in Reqs :
        (Responded(r) /\ Created(r)) => JobOf(r).status \in {"completed", "failed"}

\* C5: a request whose describe stage threw has no call of the synthesizer.
C5_NoSynthesizeAfterDescribeFailure ==
    \A r \in Reqs : DescribeFailed(r) => calls[r].synthesize = 0

\* describe was called, threw, and the request has been answered
C5_Witness ==
    \E r \in Reqs :
        DescribeFailed(r) /\ caught[r] = "Invalid Gemini response" /\ pc[r] = "done"

\* C6: after a failed upload the request is not answered before describe has
\* been called; the job is at analyzing or beyond, describe is (to be) called
\* with the original image, and the record has no imagekitUrl.
C6_UploadFailureFallsBack ==
    \A r \in Reqs :
        uploadWarn[r] # None =>
            /\ Created(r)
            /\ JobOf(r).status \in {"analyzing", "generating", "completed"}
            /\ ~Has(JobOf(r), "imagekitUrl")
            /\ imageToAnalyze[r] = imageData[r]
            /\ pc[r] = "describe" \/ calls[r].describe = 1
            /\ calls[r].describe = 1 => describeArg[r] = imageData[r]

\* the upload failed and describe has been called with the original image
C6_Witness ==
    \E r \in Reqs :
        /\ uploadWarn[r] # None
        /\ external[r]
        /\ calls[r].describe = 1
        /\ describeArg[r] = imageData[r]
        /\ JobOf(r).status = "analyzing"

\* C7: a job record has videoData exactly when its status is completed.
C7_VideoDataIffCompleted ==
    \A id \in Jobs :
        Has(videoGenerations[id], "videoData") <=> videoGenerations[id].status = "completed"

\* a completed job with its payload
C7_Witness ==
    \E id \in Jobs :
        /\ videoGenerations[id].status = "completed"
        /\ Has(videoGenerations[id], "videoData")

\* C8: a job record with status generating has geminiDescription and
\* videoPrompt.
C8_GeneratingHasAnalysis ==
    \A id \in Jobs :
        videoGenerations[id].status = "generating" =>
            /\ Has(videoGenerations[id], "geminiDescription")
            /\ Has(videoGenerations[id], "videoPrompt")

\* a job at generating while the synthesizer runs
C8_Witness ==
    \E r \in Reqs : pc[r] = "vPoll" /\ JobOf(r).status = "generating"

\* C9: a job record with videoPrompt has geminiDescription.
C9_PromptImpliesDescription ==
    \A id \in Jobs :
        Has(videoGenerations[id], "videoPrompt") =>
            Has(videoGenerations[id], "geminiDescription")

\* a job whose videoPrompt has been persisted
C9_Witness ==
    \E id \in Jobs :
        /\ Has(videoGenerations[id], "videoPrompt")
        /\ videoGenerations[id].videoPrompt = Analysis("description").videoPrompt

\* the requests that have passed input validation
Validated == { r \in Reqs : pc[r] # "idle" /\ imageData[r] # NoImage }

\* C10: every validated request has its own record in the store, the store
\* holds no other record, and no request has issued a network call without
\* its record being in the store.
C10_OneRecordBeforeExternalCalls ==
    /\ \A r \in Validated : Created(r) /\ JobOf(r).imageUrl = imageData[r]
    /\ \A r, q \in Validated : r # q => videoGen[r] # videoGen[q]
    /\ Cardinality(Jobs) = Cardinality(Validated)
    /\ \A r \in Reqs : external[r] => r \in Validated /\ Created(r)

\* a request has issued its first network call, its record in the store
C10_Witness ==
    \E r \in Reqs : external[r] /\ Created(r) /\ pc[r] \in {"upFetch", "upPost"}

\* the handler of r is inside uploadToImageKit, waiting for the network
Uploading(r) == pc[r] \in {"upFetch", "upPost"}

\* C11: while the upload of a request is in progress its job has status
\* pending; analyzing is written only once the upload has ended.
C11_PendingWhileUploading ==
    \A r \in Reqs : Uploading(r) => JobOf(r).status = "pending"

\* the upload of r has ended, with a hosted URL or with a logged failure
UploadFinished(r) ==
    /\ calls[r].upload = 1
    /\ ~Uploading(r)
    /\ uploadWarn[r] # None \/ (Created(r) /\ Has(JobOf(r), "imagekitUrl"))

\* C12: describe is called only after the upload attempt has finished, and
\* synthesize only after describe has been called and has returned a result.
C12_StagesInOrder ==
    \A r \in Reqs :
        /\ calls[r].describe > 0 => UploadFinished(r)
        /\ calls[r].synthesize > 0 =>
               /\ UploadFinished(r)
               /\ calls[r].describe > 0
               /\ DOMAIN analysisData[r] # {}

\* all three stages have been entered, the synthesizer last
C12_Witness ==
    \E r \in Reqs :
        /\ calls[r] = [upload |-> 1, describe |-> 1, synthesize |-> 1]
        /\ pc[r] = "vAuth"
        /\ JobOf(r).status = "generating"

TimedOut == "Video generation timed out"

\* C13: a status check answered "not done" is followed by another check as
\* long as fewer than maxAttempts checks have been made, and the check
\* number maxAttempts ends the loop with the timeout outcome; the timeout
\* outcome arises at no other check, and never more than maxAttempts checks
\* are made.
C13_TimeoutAfterMaxAttempts ==
    [][\A r \in Reqs :
          /\ (pc[r] = "vPoll" /\ (pc'[r] # pc[r] \/ i'[r] # i[r])) =>
                 /\ i[r] < maxAttempts
                 /\ statusData'[r] = "running" =>
                        IF i[r] + 1 < maxAttempts
                        THEN pc'[r] = "vPoll" /\ i'[r] = i[r] + 1 /\ res'[r] = None
                        ELSE pc'[r] = "done" /\ res'[r] = "500" /\ caught'[r] = TimedOut
          /\ (caught'[r] = TimedOut /\ caught[r] # TimedOut) =>
                 /\ pc[r] = "vPoll"
                 /\ i[r] + 1 = maxAttempts
                 /\ statusData'[r] \notin {"notOk", "doneError"}]_vars

\* the last permitted check was answered "not done" and the request failed
\* with the timeout
C13_Witness ==
    \E r \in Reqs :
        /\ caught[r] = TimedOut
        /\ statusData[r] = "running"
        /\ res[r] = "500"

\* the answers of a status check that report done
DoneAnswers == {"doneError", "doneVideo", "doneUri", "doneEmpty"}

\* C14: after a status check has reported done, the poll loop is not waiting
\* for a further status check.
C14_DoneEndsPolling ==
    \A r \in Reqs : statusData[r] \in DoneAnswers => pc[r] # "vPoll"

\* a required credential or identifier is absent from the environment
MissingConfig ==
    \/ ~env.IMAGEKIT_PRIVATE_KEY
    \/ ~env.GEMINI_API_KEY
    \/ env.VERTEX_SERVICE_ACCOUNT_JSON = "missing"
    \/ ~env.VERTEX_PROJECT_ID

ConfigErrors ==
    { "IMAGEKIT_PRIVATE_KEY not configured", "GEMINI_API_KEY not configured",
      "VERTEX_SERVICE_ACCOUNT_JSON not configured", "VERTEX_PROJECT_ID not configured" }

\* C15: with a required credential or identifier absent, no request issues a
\* network call, and every validated request that has been answered was
\* answered with a configuration error.
C15_MissingConfigBeforeNetwork ==
    MissingConfig =>
        \A r \in Reqs :
            /\ ~external[r]
            /\ (pc[r] = "done" /\ Created(r)) => caught[r] \in ConfigErrors

\* C16: no stage function is invoked more than once for a request.
C16_NoRetry ==
    \A r \in Reqs :
        /\ calls[r].upload <= 1
        /\ calls[r].describe <= 1
        /\ calls[r].synthesize <= 1

\* a request that failed in its last stage, each stage invoked once
C16_Witness ==
    \E r \in Reqs :
        /\ pc[r] = "done"
        /\ caught[r] # None
        /\ calls[r] = [upload |-> 1, describe |-> 1, synthesize |-> 1]

----------------------------------------------------------------------------
(* Resubmission: a client that sends its next request only after the       *)
(* previous one has come back with a failure.                              *)

ReceiveAfterFailure(r) ==
    /\ \A q \in Reqs : q < r => res[q] = "500"
    /\ Receive(r)

NextResubmit ==
    \/ \E r \in Reqs : ReceiveAfterFailure(r)
    \/ \E r \in Reqs : SetAnalyzing(r)
    \/ \E r \in Reqs : UploadStart(r)
    \/ \E r \in Reqs : UploadFetch(r)
    \/ \E r \in Reqs : UploadPost(r)
    \/ \E r \in Reqs : DescribeStart(r)
    \/ \E r \in Reqs : DescribeFetch(r)
    \/ \E r \in Reqs : DescribePost(r)
    \/ \E r \in Reqs : SynthStart(r)
    \/ \E r \in Reqs : SynthAuth(r)
    \/ \E r \in Reqs : SynthPredict(r)
    \/ \E r \in Reqs : SynthDownload(r)
    \/ \E r \in Reqs : SynthPoll(r)
    \/ \E r \in Reqs : SynthPollDownload(r)
    \/ \E r \in Reqs : SendVideo(r)

SpecResubmit == InitFor(NumReqs + 1) /\ [][NextResubmit]_vars

\* the fields of a record that has just been created
FreshFields == {"id", "productName", "imageUrl", "status", "createdAt", "updatedAt"}

\* C17: the step that accepts a request creates a record under an id the
\* store did not hold, with status pending and none of the result fields,
\* and starts from fresh handler state; it changes no record that was there,
\* and no step changes the record of a request that has been answered.
C17_ResubmitCreatesNewJob ==
    [][\A r \in Reqs :
          /\ (pc[r] = "idle" /\ pc'[r] = "created") =>
                 /\ videoGen'[r] \notin Jobs
                 /\ videoGen'[r] \in DOMAIN videoGenerations'
                 /\ videoGenerations'[videoGen'[r]].id = videoGen'[r]
                 /\ videoGenerations'[videoGen'[r]].status = "pending"
                 /\ DOMAIN videoGenerations'[videoGen'[r]] = FreshFields
                 /\ analysisData'[r] = NoAnalysis
                 /\ calls'[r] = [upload |-> 0, describe |-> 0, synthesize |-> 0]
                 /\ \A id \in Jobs : videoGenerations'[id] = videoGenerations[id]
          /\ (Responded(r) /\ Created(r)) =>
                 /\ videoGen[r] \in DOMAIN videoGenerations'
                 /\ videoGenerations'[videoGen[r]] = JobOf(r)]_vars

\* a request failed after describe had persisted its results, and the
\* resubmitted request has its own pending record
C17_Witness ==
    \E q, r \in Reqs :
        /\ q < r
        /\ res[q] = "500"
        /\ Created(q)
        /\ JobOf(q).status = "generating"
        /\ pc[r] = "created"
        /\ videoGen[r] # videoGen[q]
        /\ JobOf(r).status = "pending"

----------------------------------------------------------------------------
(* The IStorage interface of MemStorage, called directly by a client, with *)
(* the clock advancing between calls.                                      *)

\* the records a client creates and the partial inputs it updates with
CreateInputs == { NewJob(<<"data:", "b64">>) }

PartialInputs ==
    { AnalyzingUpdate, AnalysisUpdate(Analysis("description")),
      CompletedUpdate("inline video") }

\* the ids a client asks for: those the store can hold and one it cannot
IdSpace == 1..(MaxJobs + 1)

handlerVars ==
    <<env, pc, imageData, videoGen, imageToAnalyze, describeArg, analysisData, i,
      res, caught, uploadWarn, calls, external, statusData>>

StoreCreate(data) ==
    /\ Cardinality(DOMAIN videoGenerations) < MaxJobs
    /\ LET id == randomUUID(videoGenerations) IN
        /\ videoGenerations' = createVideoGeneration(videoGenerations, id, data, now)
        /\ lastCall' = [op |-> "create", id |-> id, data |-> data,
                        ret |-> getVideoGeneration(videoGenerations', id)]
    /\ UNCHANGED <<now, handlerVars, clientVars>>

StoreUpdate(id, data) ==
    /\ videoGenerations' = updateVideoGeneration(videoGenerations, id, data, now)
    /\ lastCall' = [op |-> "update", id |-> id, data |-> data,
                    ret |-> IF id \in DOMAIN videoGenerations
                            THEN getVideoGeneration(videoGenerations', id)
                            ELSE Undefined]
    /\ UNCHANGED <<now, handlerVars, clientVars>>

StoreGet(id) ==
    /\ lastCall' = [op |-> "get", id |-> id,
                    ret |-> getVideoGeneration(videoGenerations, id)]
    /\ UNCHANGED <<videoGenerations, now, handlerVars, clientVars>>

StoreList ==
    /\ lastCall' = [op |-> "list", ret |-> listVideoGenerations(videoGenerations)]
    /\ UNCHANGED <<videoGenerations, now, handlerVars, clientVars>>

\* Time passes.
Tick ==
    /\ now < MaxClock
    /\ now' = now + 1
    /\ UNCHANGED <<videoGenerations, lastCall, handlerVars, clientVars>>

StoreInit ==
    /\ InitFor(0)
    /\ env.IMAGEKIT_PRIVATE_KEY /\ env.GEMINI_API_KEY /\ env.VERTEX_PROJECT_ID
    /\ env.VERTEX_SERVICE_ACCOUNT_JSON = "valid"

StoreNext ==
    \/ \E data \in CreateInputs : StoreCreate(data)
    \/ \E id \in IdSpace, data \in PartialInputs : StoreUpdate(id, data)
    \/ \E id \in IdSpace : StoreGet(id)
    \/ StoreList
    \/ Tick

SpecStore == StoreInit /\ [][StoreNext]_vars

\* the step is a call of updateVideoGeneration
UpdateCalled == lastCall' # lastCall /\ lastCall'.op = "update"

\* C18: a call of updateVideoGeneration with an id the store does not hold
\* returns undefined and leaves the store as it was.
C18_UpdateUnknownIsNoOp ==
    [][(UpdateCalled /\ lastCall'.id \notin Jobs) =>
           /\ lastCall'.ret = Undefined
           /\ videoGenerations' = videoGenerations]_vars

\* the store holds records and the latest call updated an id it does not hold
C18_Witness ==
    /\ Jobs # {}
    /\ lastCall.op = "update"
    /\ lastCall.id \notin Jobs
    /\ lastCall.ret = Undefined

\* C19: a call of updateVideoGeneration with an id the store holds leaves a
\* record with the fields of the old record and of the input; the fields of
\* the input have the input's values, updatedAt is the current time, every
\* other field has its old value; the record is returned, and no other
\* record is added, removed or changed.
C19_UpdateMerges ==
    [][(UpdateCalled /\ lastCall'.id \in Jobs) =>
           LET id == lastCall'.id
               data == lastCall'.data
               old == videoGenerations[id]
               new == videoGenerations'[id]
           IN  /\ DOMAIN videoGenerations' = Jobs
               /\ DOMAIN new = DOMAIN old \cup DOMAIN data
               /\ \A f \in DOMAIN data : new[f] = data[f]
               /\ \A f \in DOMAIN old \ (DOMAIN data \cup {"updatedAt"}) : new[f] = old[f]
               /\ new.updatedAt = now
               /\ lastCall'.ret = new
               /\ \A j \in Jobs \ {id} : videoGenerations'[j] = videoGenerations[j]]_vars

\* two records, one of them updated twice at a later time than its creation
C19_Witness ==
    /\ Cardinality(Jobs) = 2
    /\ lastCall.op = "update"
    /\ lastCall.id \in Jobs
    /\ lastCall.ret = videoGenerations[lastCall.id]
    /\ Has(lastCall.ret, "geminiDescription")
    /\ lastCall.ret.status = "completed"
    /\ lastCall.ret.updatedAt > lastCall.ret.createdAt

\* C20: every call of updateVideoGeneration with an id the store holds
\* leaves updatedAt strictly greater than it was.
C20_UpdatedAtStrictlyIncreases ==
    [][(UpdateCalled /\ lastCall'.id \in Jobs) =>
           videoGenerations'[lastCall'.id].updatedAt
               > videoGenerations[lastCall'.id].updatedAt]_vars

\* C21: every record's updatedAt is at least its createdAt, and the record a
\* create has just stored and returned has updatedAt equal to createdAt.
C21_UpdatedAtNotBeforeCreatedAt ==
    /\ \A id \in Jobs : videoGenerations[id].updatedAt >= videoGenerations[id].createdAt
    /\ lastCall.op = "create" =>
           /\ videoGenerations[lastCall.id] = lastCall.ret
           /\ lastCall.ret.updatedAt = lastCall.ret.createdAt

\* a record created after the clock has advanced, beside one updated after
\* its creation
C21_Witness ==
    /\ lastCall.op = "create"
    /\ lastCall.ret.createdAt > 0
    /\ \E id \in Jobs : videoGenerations[id].updatedAt > videoGenerations[id].createdAt

\* the step is a call of getVideoGeneration, of listVideoGenerations
GetCalled == lastCall' # lastCall /\ lastCall'.op = "get"

ListCalled == lastCall' # lastCall /\ lastCall'.op = "list"

\* the step is a call that creates or updates the record of this id
Mutates(id) ==
    /\ lastCall' # lastCall
    /\ lastCall'.op \in {"create", "update"}
    /\ lastCall'.id = id

\* what the map holds under an id
Held(store, id) == IF id \in DOMAIN store THEN store[id] ELSE Undefined

\* C22: a call of getVideoGeneration returns what the map holds under the id,
\* field for field, and changes neither the map nor the clock; and what the
\* map holds under an id changes in no step but a create or an update of that
\* very id, whatever else is created, read, listed or updated. Hence two reads
\* of an id with no update of it in between return the same values.
C22_GetIsIdempotent ==
    [][/\ GetCalled =>
            /\ lastCall'.ret = Held(videoGenerations, lastCall'.id)
            /\ videoGenerations' = videoGenerations
            /\ now' = now
       /\ \A id \in IdSpace :
            Held(videoGenerations', id) # Held(videoGenerations, id) => Mutates(id)]_vars

\* a read of a completed record while another record has been updated later
C22_Witness ==
    /\ lastCall.op = "get"
    /\ lastCall.id \in Jobs
    /\ lastCall.ret.status = "completed"
    /\ \E other \in Jobs \ {lastCall.id} :
           videoGenerations[other].updatedAt > lastCall.ret.updatedAt

\* C26: no step removes an id from the map; a get of an id the map holds
\* returns the record of that id; and a list returns as many records as the
\* map holds, each id once.
C26_NeverDeleted ==
    [][/\ Jobs \subseteq DOMAIN videoGenerations'
       /\ (GetCalled /\ lastCall'.id \in Jobs) =>
            /\ lastCall'.ret # Undefined
            /\ lastCall'.ret.id = lastCall'.id
       /\ ListCalled =>
            /\ Len(lastCall'.ret) = Cardinality(Jobs)
            /\ \A id \in Jobs :
                   Cardinality({k \in DOMAIN lastCall'.ret : lastCall'.ret[k].id = id}) = 1]_vars

\* a list of two records, the first of them updated since, after the clock
\* has advanced
C26_Witness ==
    /\ lastCall.op = "list"
    /\ Len(lastCall.ret) = 2
    /\ lastCall.ret[1].status = "completed"
    /\ lastCall.ret[2].createdAt > 0

----------------------------------------------------------------------------
(* Concurrent requests: the handler's awaits of one request interleave with *)
(* those of another.                                                        *)

SpecConcurrent == InitFor(NumReqs + 1) /\ [][Next]_vars

\* the handler's local state of a request
Local(r) ==
    <<pc[r], imageData[r], videoGen[r], imageToAnalyze[r], describeArg[r],
      analysisData[r], i[r], res[r], caught[r], uploadWarn[r], calls[r],
      external[r], statusData[r]>>

\* the ids whose record the step has added or changed
Written ==
    {id \in DOMAIN videoGenerations' :
        id \notin Jobs \/ videoGenerations'[id] # videoGenerations[id]}

\* C23: no step removes a record, and every record a step adds or changes is
\* the record of the one request that takes the step and of no other request,
\* changed as that request alone would change it: its status stays or
\* advances and its createdAt and imageUrl stay. So between two steps of a
\* request its record is as the request left it.
C23_OnlyOwnerWrites ==
    [][/\ Jobs \subseteq DOMAIN videoGenerations'
       /\ \A id \in Written :
            /\ \E r \in Reqs :
                  /\ Local(r)' # Local(r)
                  /\ videoGen'[r] = id
                  /\ \A q \in Reqs \ {r} : videoGen'[q] # id /\ Local(q)' = Local(q)
            /\ id \in Jobs =>
                  /\ StatusMove(videoGenerations[id].status, videoGenerations'[id].status)
                  /\ videoGenerations'[id].createdAt = videoGenerations[id].createdAt
                  /\ videoGenerations'[id].imageUrl = videoGenerations[id].imageUrl]_vars

\* two requests in flight at once, the later one ahead of the earlier one
C23_Witness ==
    \E r, q \in Reqs :
        /\ r < q
        /\ Created(r) /\ Created(q)
        /\ pc[r] \notin {"idle", "done"} /\ pc[q] \notin {"idle", "done"}
        /\ JobOf(r).status = "analyzing"
        /\ JobOf(q).status = "generating"

----------------------------------------------------------------------------
(* What the synthesize stage is given *)

\* the arguments of the handler's call of generateVideoWithVertexAI
synthesizeArgs(r) ==
    [prompt |-> analysisData[r].videoPrompt, productName |-> ProductName]

\* the one instance of the body generateVideoWithVertexAI posts to the model
requestBody(prompt) ==
    [instances |-> <<[prompt |-> prompt]>>,
     parameters |-> [aspectRatio |-> "16:9", duration |-> 8, responseCount |-> 1]]

\* C24: whenever the synthesize stage has been called for a request, its
\* arguments carry the resolved image references, the reference the describe
\* stage was given among them, and so does the instance posted to the model.
C24_SynthesizeGetsImages ==
    \A r \in Reqs :
        calls[r].synthesize > 0 =>
            /\ Has(synthesizeArgs(r), "images")
            /\ \E k \in DOMAIN synthesizeArgs(r).images :
                   synthesizeArgs(r).images[k] = imageToAnalyze[r]
            /\ Has(requestBody(synthesizeArgs(r).prompt).instances[1], "image")

----------------------------------------------------------------------------
(* Progress: the event loop resumes a suspended handler once the promise it *)
(* awaits has settled, and every call of a provider settles.                *)

\* the handler of r resumes at the await it is suspended at
HandlerStep(r) ==
    \/ SetAnalyzing(r)
    \/ UploadStart(r)
    \/ UploadFetch(r)
    \/ UploadPost(r)
    \/ DescribeStart(r)
    \/ DescribeFetch(r)
    \/ DescribePost(r)
    \/ SynthStart(r)
    \/ SynthAuth(r)
    \/ SynthPredict(r)
    \/ SynthDownload(r)
    \/ SynthPoll(r)
    \/ SynthPollDownload(r)
    \/ SendVideo(r)

FairSpec == Spec /\ \A r \in 1..NumReqs : WF_vars(HandlerStep(r))

----------------------------------------------------------------------------
\* C27: no request whose predict response carried inline video data ends
\* with the error for an unexpected response: the inline video is returned.
C27_InlineVideoReturned ==
    \A r \in Reqs :
        caught[r] # Unexpected([name |-> FALSE, video |-> TRUE, videoUri |-> FALSE])

\* C28: a request that has arrived without imageData has been answered 400,
\* has no record, has called no stage and has issued no network call; and the
\* step that answers 400 leaves the store as it was.
C28_MissingImageRejected ==
    /\ [](\A r \in Reqs :
            (pc[r] # "idle" /\ imageData[r] = NoImage) =>
                /\ res[r] = "400"
                /\ pc[r] = "done"
                /\ videoGen[r] = 0
                /\ calls[r] = [upload |-> 0, describe |-> 0, synthesize |-> 0]
                /\ ~external[r])
    /\ [][\A r \in Reqs :
            (res[r] # "400" /\ res'[r] = "400") =>
                /\ pc[r] = "idle"
                /\ videoGenerations' = videoGenerations]_vars

\* a request rejected with 400 while the store holds an earlier request's record
C28_Witness ==
    \E r \in Reqs :
        /\ res[r] = "400"
        /\ Jobs # {}
        /\ \A q \in Reqs : videoGen[q] \in Jobs => q < r

----------------------------------------------------------------------------
(* The VideoGenerator component with workflow tracking: a page whose user   *)
(* selects a file and presses Generate, while the browser runs the awaits   *)
(* of generateVideo and the timers of simulateWorkflowProgress.             *)

serverVars == <<videoGenerations, now, lastCall, handlerVars>>

\* the runs of generateVideo that have not ended
InFlight == {k \in DOMAIN runPc : runPc[k] # "done"}

\* simulateWorkflowProgress: the steps and their delays (ms)
stepTimings ==
    << [step |-> 2, status |-> "generating-description", progress |-> 30, delay |-> 2000],
       [step |-> 3, status |-> "generating-prompt", progress |-> 45, delay |-> 3000],
       [step |-> 4, status |-> "creating-video", progress |-> 65, delay |-> 5000],
       [step |-> 5, status |-> "processing-video", progress |-> 85, delay |-> 3000] >>

\* a timer runs before another when it is due earlier or, due at the same
\* time, was set earlier
Before(t, u) ==
    \/ t.due < u.due
    \/ t.due = u.due /\ t.run < u.run
    \/ t.due = u.due /\ t.run = u.run /\ t.idx <= u.idx

\* the timer the browser runs next
Due(t) == t \in timers /\ t.due <= time /\ \A u \in timers : Before(t, u)

\* the user picks a file in FileUploadZone
SelectFile ==
    /\ ~selectedFile
    /\ selectedFile' = TRUE
    /\ UNCHANGED <<status, progress, result, workflowSteps, runPc, timers, time, serverVars>>

\* the Generate button of the tracking component is disabled
TrackedDisabled ==
    ~selectedFile \/ status = "creating-video" \/ status = "processing-video"

\* the user presses Generate: generateVideo runs up to the FileReader await
TrackedGenerate ==
    /\ ~TrackedDisabled
    /\ Len(runPc) < MaxRuns
    /\ result' = FALSE
    /\ workflowSteps' = {}
    /\ status' = "uploading"
    /\ progress' = 5
    /\ runPc' = Append(runPc, "readFile")
    /\ UNCHANGED <<selectedFile, timers, time, serverVars>>

\* the catch of generateVideo
TrackedCatch(k) ==
    /\ status' = "error"
    /\ runPc' = [runPc EXCEPT ![k] = "done"]
    /\ UNCHANGED <<progress, result, workflowSteps>>

\* the file is read: step 1, then the fetch is issued
TrackedFileRead(k) ==
    /\ runPc[k] = "readFile"
    /\ status' = "webhook-triggered"
    /\ progress' = 15
    /\ workflowSteps' = workflowSteps \cup {1}
    /\ runPc' = [runPc EXCEPT ![k] = "fetch"]
    /\ UNCHANGED <<selectedFile, result, timers, time, serverVars>>

\* the kinds of answer of fetch('/api/generate-video')
FetchOutcomes == {"rejected", "notOk", "video", "json", "text"}

\* the fetch settles: on an ok response the timers are set and the body is
\* read according to its content type
TrackedFetched(k) ==
    /\ runPc[k] = "fetch"
    /\ \E outcome \in FetchOutcomes :
        IF outcome \in {"rejected", "notOk"}
        THEN /\ TrackedCatch(k)
             /\ UNCHANGED timers
        ELSE /\ timers' = timers \cup
                    { [run |-> k, idx |-> n, due |-> time + (stepTimings[n].delay \div 1000)] :
                        n \in DOMAIN stepTimings }
             /\ runPc' = [runPc EXCEPT ![k] = outcome]
             /\ UNCHANGED <<status, progress, result, workflowSteps>>
    /\ UNCHANGED <<selectedFile, time, serverVars>>

\* the body is read: a video completes the run, anything else throws
TrackedBody(k) ==
    /\ runPc[k] \in {"video", "json", "text"}
    /\ \E ok \in BOOLEAN :
        IF runPc[k] = "video" /\ ok
        THEN /\ status' = "completed"
             /\ progress' = 100
             /\ workflowSteps' = workflowSteps \cup {6}
             /\ result' = TRUE
             /\ runPc' = [runPc EXCEPT ![k] = "done"]
        ELSE TrackedCatch(k)
    /\ UNCHANGED <<selectedFile, timers, time, serverVars>>

\* a timer of simulateWorkflowProgress runs its callback
TimeoutFires ==
    \E t \in timers :
        /\ Due(t)
        /\ status' = stepTimings[t.idx].status
        /\ progress' = stepTimings[t.idx].progress
        /\ workflowSteps' = workflowSteps \cup {stepTimings[t.idx].step}
        /\ timers' = timers \ {t}
        /\ UNCHANGED <<selectedFile, result, runPc, time, serverVars>>

\* a second passes with no timer due
Advance ==
    /\ time < MaxTime
    /\ \A t \in timers : t.due > time
    /\ time' = time + 1
    /\ UNCHANGED <<selectedFile, status, progress, result, workflowSteps, runPc, timers,
                   serverVars>>

\* the user presses "Create new video" on the result card
startNewVideo ==
    /\ result
    /\ selectedFile' = FALSE
    /\ status' = "idle"
    /\ progress' = 0
    /\ result' = FALSE
    /\ workflowSteps' = {}
    /\ UNCHANGED <<runPc, timers, time, serverVars>>

TrackedNext ==
    \/ SelectFile
    \/ TrackedGenerate
    \/ \E k \in DOMAIN runPc : TrackedFileRead(k)
    \/ \E k \in DOMAIN runPc : TrackedFetched(k)
    \/ \E k \in DOMAIN runPc : TrackedBody(k)
    \/ TimeoutFires
    \/ Advance
    \/ startNewVideo

SpecTracked == StoreInit /\ [][TrackedNext]_vars

\* the step runs a timer callback
TimerRan == timers' # timers /\ timers' \subseteq timers

\* C29: a timer callback that runs while status is completed or error
\* changes neither status nor progress.
C29_TerminalStatusKept ==
    [][(status \in {"completed", "error"} /\ TimerRan) =>
           status' = status /\ progress' = progress]_vars

----------------------------------------------------------------------------
(* The basic VideoGenerator component: the same page without workflow       *)
(* tracking; its one timer is the progress interval.                        *)

\* the Generate button of the basic component is disabled
BasicDisabled ==
    ~selectedFile \/ status = "creating-video" \/ status = "processing"

\* the user presses Generate: generateVideo runs up to the FileReader await
BasicGenerate ==
    /\ ~BasicDisabled
    /\ Len(runPc) < MaxRuns
    /\ result' = FALSE
    /\ status' = "uploading"
    /\ progress' = 10
    /\ runPc' = Append(runPc, "readFile")
    /\ UNCHANGED <<selectedFile, workflowSteps, timers, time, serverVars>>

\* the file is read, then the fetch is issued
BasicFileRead(k) ==
    /\ runPc[k] = "readFile"
    /\ status' = "generating-prompt"
    /\ progress' = 30
    /\ runPc' = [runPc EXCEPT ![k] = "fetch"]
    /\ UNCHANGED <<selectedFile, result, workflowSteps, timers, time, serverVars>>

\* the fetch settles: a rejection goes to the catch; a response sets
\* creating-video and 50, then a response that is not ok throws, and an ok
\* one starts the progress interval and the read of the body
BasicFetched(k) ==
    /\ runPc[k] = "fetch"
    /\ \E outcome \in {"rejected", "notOk", "ok"} :
        /\ status' = IF outcome = "ok" THEN "creating-video" ELSE "error"
        /\ progress' = IF outcome = "rejected" THEN progress ELSE 50
        /\ runPc' = [runPc EXCEPT ![k] = IF outcome = "ok" THEN "blob" ELSE "done"]
        /\ timers' = IF outcome = "ok"
                     THEN timers \cup {[run |-> k, idx |-> 0, due |-> time + 1]}
                     ELSE timers
    /\ UNCHANGED <<selectedFile, result, workflowSteps, time, serverVars>>

\* the progress interval runs its callback and is due again a second later
IntervalFires ==
    \E t \in timers :
        /\ Due(t)
        /\ progress' = IF progress + 5 < 95 THEN progress + 5 ELSE 95
        /\ timers' = (timers \ {t}) \cup {[t EXCEPT !.due = t.due + 1]}
        /\ UNCHANGED <<selectedFile, status, result, workflowSteps, runPc, time, serverVars>>

\* response.blob() settles: on success the interval is cleared and the run
\* completes; a rejection goes to the catch with the interval still set
BasicBlob(k) ==
    /\ runPc[k] = "blob"
    /\ \E ok \in BOOLEAN :
        IF ok
        THEN /\ timers' = {t \in timers : t.run # k}
             /\ status' = "completed"
             /\ progress' = 100
             /\ result' = TRUE
        ELSE /\ status' = "error"
             /\ UNCHANGED <<timers, progress, result>>
    /\ runPc' = [runPc EXCEPT ![k] = "done"]
    /\ UNCHANGED <<selectedFile, workflowSteps, time, serverVars>>

BasicNext ==
    \/ SelectFile
    \/ BasicGenerate
    \/ \E k \in DOMAIN runPc : BasicFileRead(k)
    \/ \E k \in DOMAIN runPc : BasicFetched(k)
    \/ \E k \in DOMAIN runPc : BasicBlob(k)
    \/ IntervalFires
    \/ Advance
    \/ startNewVideo

SpecBasic == StoreInit /\ [][BasicNext]_vars

\* C30: at most one run of generateVideo is in flight, and while one is, the
\* Generate button is disabled.
C30_OneRunInFlight ==
    /\ Cardinality(InFlight) <= 1
    /\ InFlight # {} => BasicDisabled

====
